---- MODULE Spec2Model ----
(***************************************************************************)
(* Model of src/pages/2_fit.py: the simulation engine gen_lin_data, the    *)
(* plotting routine plot_ols and the Streamlit page script that drives     *)
(* them from four sliders and the "Resample data" button.                  *)
(*                                                                         *)
(* Units.  The sliders move in steps of 0.1, so b0, b1 and sd are integers *)
(* counting tenths; x is an integer; y = b0 + b1*x + eps counts tenths.    *)
(* Everything derived from the fit is an exact fraction [n, d]; a float    *)
(* result that may be NaN or infinite is a record [k, n, d].               *)
(***************************************************************************)
EXTENDS Integers, Sequences, FiniteSets, TLC

VARIABLES
    np_state,     \* numpy's process-wide generator: [key, pos]
    out,          \* engine: outcome of the latest gen_lin_data call
    out_args,     \* engine: arguments of the latest call
    ref,          \* engine: arguments and outcome of the first call made
    op,           \* engine: the operation that produced the current state
    plot,         \* engine: what plot_ols handed to ax.plot / ax.fill_between
    b0_cust, b1_cust, var_cust, n_cust,   \* page: slider values
    random_seed,  \* page: module variable random_seed at the end of the run
    clicked,      \* page: the latest run was caused by "Resample data"
    calls,        \* page: gen_lin_data invocations of the latest run, in order
    custom_data,  \* page: the invocation whose result custom_data is bound to
                  \* when the table, the plot and the statistics are made
    seed_before   \* page: the run before the latest ended with random_seed # 0

vars == <<np_state, out, out_args, ref, op, plot, b0_cust, b1_cust,
          var_cust, n_cust, random_seed, clicked, calls, custom_data,
          seed_before>>

engineVars == <<out, out_args, ref, op, plot>>
pageVars == <<b0_cust, b1_cust, var_cust, n_cust, random_seed, clicked,
              calls, custom_data, seed_before>>

----------------------------------------------------------------------------
(* Bounds of the engine specification *)

MaxN == 3          \* sample sizes 1..MaxN
MaxSeed == 1       \* seeds 0..MaxSeed
MaxSd == 1         \* error SD -1..MaxSd (tenths)
MaxCoef == 1       \* b0 in 0..MaxCoef, b1 in -MaxCoef..MaxCoef (tenths)
XLevels == 3       \* distinct values a uniform draw can take
ZMax == 1          \* a standard normal draw takes a value in -ZMax..ZMax

(* Bounds of the page specification *)

SliderReach == 1   \* slider positions within so many steps of min, default, max
SeedReach == 1     \* randint results within so many of either end

----------------------------------------------------------------------------
(* Exact fractions *)

Abs(a) == IF a < 0 THEN -a ELSE a

RECURSIVE GCD(_, _)
GCD(a, b) == IF b = 0 THEN a ELSE GCD(b, a % b)

Rat(n, d) ==
    LET g == GCD(Abs(n), Abs(d))
        sg == IF d < 0 THEN -1 ELSE 1
    IN  [n |-> sg * (n \div g), d |-> sg * (d \div g)]

RInt(a) == [n |-> a, d |-> 1]
RAdd(p, q) == Rat(p.n * q.d + q.n * p.d, p.d * q.d)
RSub(p, q) == Rat(p.n * q.d - q.n * p.d, p.d * q.d)
RMul(p, q) == Rat(p.n * q.n, p.d * q.d)
RQuot(p, q) == Rat(p.n * q.d, p.d * q.n)     \* q # 0

RECURSIVE SumInt(_)
SumInt(s) == IF s = <<>> THEN 0 ELSE Head(s) + SumInt(Tail(s))

RECURSIVE SumRat(_)
SumRat(s) == IF s = <<>> THEN RInt(0) ELSE RAdd(Head(s), SumRat(Tail(s)))

(* Floating-point results: a finite fraction, the square root of one, NaN, *)
(* or an infinity.                                                         *)

FNum(p) == [k |-> "num", n |-> p.n, d |-> p.d]
FNaN == [k |-> "nan", n |-> 0, d |-> 1]
FInf(sg) == [k |-> IF sg < 0 THEN "-inf" ELSE "inf", n |-> 0, d |-> 1]

\* IEEE division p / q of two finite fractions
FDiv(p, q) ==
    IF q.n # 0 THEN FNum(RQuot(p, q))
    ELSE IF p.n = 0 THEN FNaN
    ELSE FInf(p.n)

\* np.sqrt: NaN below zero, the root kept symbolically otherwise
FSqrt(f) ==
    CASE f.k = "nan" -> FNaN
      [] f.k = "inf" -> FInf(1)
      [] f.k = "-inf" -> FNaN
      [] OTHER -> IF f.n < 0 THEN FNaN
                  ELSE IF f.n = 0 THEN f
                  ELSE [k |-> "sqrt", n |-> f.n, d |-> f.d]

\* 1 - f
FOneMinus(f) ==
    CASE f.k = "nan" -> FNaN
      [] f.k = "inf" -> FInf(-1)
      [] f.k = "-inf" -> FInf(1)
      [] OTHER -> FNum(RSub(RInt(1), [n |-> f.n, d |-> f.d]))

\* f * p for a finite fraction p >= 0
FScale(f, p) ==
    CASE f.k = "num" -> FNum(RMul([n |-> f.n, d |-> f.d], p))
      [] f.k \in {"inf", "-inf"} -> IF p.n = 0 THEN FNaN ELSE f
      [] OTHER -> FNaN

----------------------------------------------------------------------------
(* numpy's global generator.  The state is the key the seed expands to and *)
(* the number of values consumed since; the value delivered at a position  *)
(* is a fixed function of both.                                            *)

RngMod == 13

\* the call np.random.seed(rseed) left out
np_random_seed_skipped(st, rseed) == st

np_random_seed(st, rseed) == [key |-> rseed, pos |-> 0]

Raw(st, i) ==
    LET p == st.pos + i
    IN  ((st.key + 1) * (2 * p + 3) + p * p + 5 * st.key) % RngMod

Advance(st, cnt) == [key |-> st.key, pos |-> st.pos + cnt]

\* np.random.uniform(low, high, size): values in [low, high)
np_random_uniform(st, low, high, size) ==
    LET step == (high - low) \div XLevels
    IN  [i \in 1..size |-> low + (Raw(st, i - 1) % XLevels) * step]

\* standard normal deviates behind np.random.normal
StdNormal(st, size) ==
    [i \in 1..size |-> ((Raw(st, i - 1) \div 2) % (2 * ZMax + 1)) - ZMax]

\* np.random.normal(loc, scale, size)
np_random_normal(st, loc, scale, size) ==
    LET z == StdNormal(st, size)
    IN  [i \in 1..size |-> loc + scale * z[i]]

----------------------------------------------------------------------------
(* scipy.stats.t.ppf(0.975, df), in thousandths; NaN for df <= 0 *)

TQuantile(df) ==
    CASE df = 1 -> 12706
      [] df = 2 -> 4303
      [] df = 3 -> 3182
      [] df = 4 -> 2776
      [] df = 5 -> 2571
      [] df = 6 -> 2447
      [] OTHER -> 0

K == 2

deg_freedom(nrows, ncols) == nrows - ncols

(* sm.OLS(y, X).fit() with X = [1, x]: least squares through the           *)
(* pseudo-inverse.  When every x equals c the design has rank 1 and the    *)
(* pseudo-inverse gives the minimum-norm coefficients.                     *)
OLSFit(x, y, N) ==
    LET Sx == SumInt(x)
        Sy == SumInt(y)
        Sxx == SumInt([i \in 1..N |-> x[i] * x[i]])
        Sxy == SumInt([i \in 1..N |-> x[i] * y[i]])
        Dn == N * Sxx - Sx * Sx
        c == x[1]
        rank == IF Dn # 0 THEN 2 ELSE 1
        p0 == IF Dn # 0 THEN Rat(Sy * Sxx - Sx * Sxy, Dn)
              ELSE Rat(Sy, N * (1 + c * c))
        p1 == IF Dn # 0 THEN Rat(N * Sxy - Sx * Sy, Dn)
              ELSE Rat(c * Sy, N * (1 + c * c))
        fitted == [i \in 1..N |-> RAdd(p0, RMul(p1, RInt(x[i])))]
        resid == [i \in 1..N |-> RSub(RInt(y[i]), fitted[i])]
        ssr == SumRat([i \in 1..N |-> RMul(resid[i], resid[i])])
        y_bar == Rat(Sy, N)
        centered_tss ==
            SumRat([i \in 1..N |->
                RMul(RSub(RInt(y[i]), y_bar), RSub(RInt(y[i]), y_bar))])
        df_resid == N - rank
        \* x_i' pinv(X'X) x_i
        lev == [i \in 1..N |->
                  IF Dn # 0
                  THEN Rat(Sxx - 2 * x[i] * Sx + N * x[i] * x[i], Dn)
                  ELSE Rat(1, N)]
    IN  [params |-> <<p0, p1>>,
         fittedvalues |-> fitted,
         ssr |-> ssr,
         centered_tss |-> centered_tss,
         rsquared |-> FOneMinus(FDiv(ssr, centered_tss)),
         df_resid |-> df_resid,
         scale |-> FDiv(ssr, RInt(df_resid)),
         leverage |-> lev]

(* model.get_prediction(X).conf_int(alpha=0.05): the bound                 *)
(* c + sgn * t/1000 * sqrt(se2) of one fitted value.                       *)
CIBound(c, sgn, df, se2) ==
    IF df <= 0 \/ se2.k # "num"
    THEN [k |-> "nan", c |-> RInt(0), sgn |-> 0, t |-> 0, se2 |-> RInt(0)]
    ELSE [k |-> "num", c |-> c,
          sgn |-> IF se2.n = 0 THEN 0 ELSE sgn,
          t |-> IF se2.n = 0 THEN 0 ELSE TQuantile(df),
          se2 |-> [n |-> se2.n, d |-> se2.d]]

conf_int(model, N) ==
    [i \in 1..N |->
        LET se2 == FScale(model.scale, model.leverage[i])
        IN  <<CIBound(model.fittedvalues[i], -1, model.df_resid, se2),
              CIBound(model.fittedvalues[i], 1, model.df_resid, se2)>>]

(* gen_lin_data(b0, b1, sd, N, rseed), called with the global generator in *)
(* state st.  The outcome carries the generator state the call leaves      *)
(* behind (np) next to what the caller receives.                           *)
gen_lin_data(st, b0, b1, sd, N, rseed) ==
    LET st0 == np_random_seed(st, rseed)
        xs == np_random_uniform(st0, -10, 10, N)
        st1 == Advance(st0, N)
        X == [i \in 1..N |-> <<1, xs[i]>>]
    IN  IF sd < 0
        THEN \* np.random.normal raises ValueError("scale < 0")
             [status |-> "ValueError", np |-> st1]
        ELSE
        LET eps == np_random_normal(st1, 0, sd, N)
            st2 == Advance(st1, N)
            y == [i \in 1..N |-> X[i][1] * b0 + X[i][2] * b1 + eps[i]]
            model == OLSFit(xs, y, N)
            y_hat == model.fittedvalues
            ci == conf_int(model, N)
            df == deg_freedom(N, K)
            e == [i \in 1..N |-> RSub(RInt(y[i]), y_hat[i])]
            s == FSqrt(FDiv(SumRat([i \in 1..N |-> RMul(e[i], e[i])]),
                            RInt(df)))
        IN  [status |-> "ok", np |-> st2,
             y |-> y, x |-> X, s |-> s, y_hat |-> y_hat, ci |-> ci,
             model |-> [params |-> model.params,
                        ssr |-> model.ssr,
                        centered_tss |-> model.centered_tss,
                        rsquared |-> model.rsquared,
                        df_resid |-> model.df_resid]]

----------------------------------------------------------------------------
(* plot_ols *)

Perms(n) == {p \in [1..n -> 1..n] : \A i, j \in 1..n : i # j => p[i] # p[j]}

IsSortedBy(x, p) == \A i \in 1..(Len(x) - 1) : x[p[i]] <= x[p[i + 1]]

\* np.argsort(x): an index sequence that puts x in non-decreasing order; the
\* default sort is not stable, so equal values may come in either order
np_argsort(x) == {p \in Perms(Len(x)) : IsSortedBy(x, p)}

Column(X, j) == [i \in 1..Len(X) |-> X[i][j]]

Take(a, idx) == [i \in 1..Len(idx) |-> a[idx[i]]]

\* plot_ols drawing the fitted line through the sorted points
plot_ols_line_sorted(data_custom, sorted_indices) ==
    [drawn |-> TRUE,
     scatter_x |-> Column(data_custom.x, 2),
     scatter_y |-> data_custom.y,
     label_minus |-> data_custom.model.params[2].n < 0,
     line_x |-> Take(Column(data_custom.x, 2), sorted_indices),
     line_y |-> Take(data_custom.y_hat, sorted_indices),
     fill_x |-> Take(Column(data_custom.x, 2), sorted_indices),
     fill_lower |-> Take(Column(data_custom.ci, 1), sorted_indices),
     fill_upper |-> Take(Column(data_custom.ci, 2), sorted_indices)]

\* plot_ols reordering x but not the lower confidence bound
plot_ols_ci_unsorted(data_custom, sorted_indices) ==
    [drawn |-> TRUE,
     scatter_x |-> Column(data_custom.x, 2),
     scatter_y |-> data_custom.y,
     label_minus |-> data_custom.model.params[2].n < 0,
     line_x |-> Column(data_custom.x, 2),
     line_y |-> data_custom.y_hat,
     fill_x |-> Take(Column(data_custom.x, 2), sorted_indices),
     fill_lower |-> Column(data_custom.ci, 1),
     fill_upper |-> Take(Column(data_custom.ci, 2), sorted_indices)]

\* what plot_ols hands to the axes, sorted_indices being the argsort result
plot_ols(data_custom, sorted_indices) ==
    [drawn |-> TRUE,
     scatter_x |-> Column(data_custom.x, 2),
     scatter_y |-> data_custom.y,
     label_minus |-> data_custom.model.params[2].n < 0,
     line_x |-> Column(data_custom.x, 2),
     line_y |-> data_custom.y_hat,
     fill_x |-> Take(Column(data_custom.x, 2), sorted_indices),
     fill_lower |-> Take(Column(data_custom.ci, 1), sorted_indices),
     fill_upper |-> Take(Column(data_custom.ci, 2), sorted_indices)]

----------------------------------------------------------------------------
(* Engine specification: the initial state holds arbitrary arguments and   *)
(* an arbitrary generator state; gen_lin_data is applied to them and       *)
(* plot_ols to its result.                                                 *)

Ns == 1..MaxN
Seeds == 0..MaxSeed
Sds == (-1)..MaxSd
B0s == 0..MaxCoef
B1s == (-MaxCoef)..MaxCoef

NoOutcome == [status |-> "none"]
NoArgs == <<>>
NoRef == [args |-> NoArgs, out |-> NoOutcome, between |-> FALSE]
NoPlot == [drawn |-> FALSE]

PageIdle ==
    /\ b0_cust = 0 /\ b1_cust = 0 /\ var_cust = 0 /\ n_cust = 0
    /\ random_seed = 0 /\ clicked = FALSE /\ calls = <<>>
    /\ custom_data = <<>>
    /\ seed_before = FALSE

InitEngine ==
    /\ np_state \in {[key |-> k, pos |-> 0] : k \in Seeds}
    /\ out = NoOutcome
    /\ out_args \in B0s \X B1s \X Sds \X Ns \X Seeds
    /\ ref = NoRef
    /\ op = "start"
    /\ plot = NoPlot
    /\ PageIdle

\* what the caller of gen_lin_data receives
Returned(r) == [f \in (DOMAIN r) \ {"np"} |-> r[f]]

Call(b0, b1, sd, N, rseed) ==
    LET r == gen_lin_data(np_state, b0, b1, sd, N, rseed)
    IN  /\ np_state' = r.np
        /\ out' = r
        /\ out_args' = <<b0, b1, sd, N, rseed>>
        /\ op' = "gen_lin_data"
        /\ plot' = NoPlot
        /\ UNCHANGED pageVars

Generate ==
    /\ op = "start"
    /\ Call(out_args[1], out_args[2], out_args[3], out_args[4], out_args[5])
    /\ UNCHANGED ref

Plot ==
    /\ out.status = "ok"
    /\ plot = NoPlot
    /\ \E idx \in np_argsort(Column(out.x, 2)) :
          plot' = plot_ols(out, idx)
    /\ op' = "plot_ols"
    /\ UNCHANGED <<np_state, out, out_args, ref>>
    /\ UNCHANGED pageVars

NextEngine ==
    \/ Generate
    \/ Plot

SpecEngine == InitEngine /\ [][NextEngine]_vars

(* Repeated calls: the first call is remembered and later calls, with the  *)
(* same or other arguments, follow it; ref.between tells that a call with  *)
(* another seed has been made since.                                       *)

RepB1s == {0, 1}
RepSds == {1}

InitRepeat ==
    /\ np_state \in {[key |-> k, pos |-> 0] : k \in Seeds}
    /\ out = NoOutcome
    /\ out_args = NoArgs
    /\ ref = NoRef
    /\ op = "start"
    /\ plot = NoPlot
    /\ PageIdle

GenerateAgain(b0, b1, sd, N, rseed) ==
    /\ Call(b0, b1, sd, N, rseed)
    /\ ref' = IF ref = NoRef
              THEN [args |-> out_args', out |-> Returned(out'),
                    between |-> FALSE]
              ELSE [ref EXCEPT !.between = @ \/ rseed # ref.args[5]]

NextRepeat ==
    \E b1 \in RepB1s, sd \in RepSds, N \in Ns, rseed \in Seeds :
        GenerateAgain(0, b1, sd, N, rseed)

SpecRepeat == InitRepeat /\ [][NextRepeat]_vars

----------------------------------------------------------------------------
(* The page script.  Streamlit runs the whole script once per interaction; *)
(* the widgets keep their values between runs, module variables do not.    *)

b0_slider == [min_value |-> -100, max_value |-> 100, value |-> 0, step |-> 1]
b1_slider == [min_value |-> -50, max_value |-> 50, value |-> 0, step |-> 1]
var_slider == [min_value |-> 1, max_value |-> 200, value |-> 100, step |-> 1]
\* the sample-size slider starting at zero
n_slider_from_zero ==
    [min_value |-> 0, max_value |-> 1000, value |-> 500, step |-> 10]

n_slider == [min_value |-> 10, max_value |-> 1000, value |-> 500, step |-> 10]

\* the values st.slider can return
SliderValues(sl) ==
    {v \in sl.min_value..sl.max_value : (v - sl.min_value) % sl.step = 0}

\* the slider values the model moves to: those near an end or the default
Near(sl) ==
    {v \in SliderValues(sl) :
        \E a \in {sl.min_value, sl.value, sl.max_value} :
            Abs(v - a) <= SliderReach * sl.step}

B0Values == Near(b0_slider)
B1Values == Near(b1_slider)
VarValues == Near(var_slider)
NValues == Near(n_slider)

\* a randint that may overshoot its upper end
random_randint_beyond(a, b) == a..(b + 1)

\* random.randint(a, b): both ends included
random_randint(a, b) == a..b

\* the results of random.randint(a, b) the model draws
SeedValues(a, b) ==
    {v \in random_randint(a, b) : v - a <= SeedReach \/ b - v <= SeedReach}

(* One gen_lin_data call as the page sees it: its arguments, the degrees   *)
(* of freedom the engine derives from the shape of X, and the generator    *)
(* state the call leaves.  The sliders keep sd above zero, so both arrays  *)
(* are drawn.                                                              *)
Invocation(st, b0, b1, sd, N, rseed) ==
    [b0 |-> b0, b1 |-> b1, sd |-> sd, N |-> N, rseed |-> rseed,
     deg_freedom |-> deg_freedom(N, K),
     np |-> Advance(Advance(np_random_seed(st, rseed), N), N)]

\* a run whose button branch replaces the first call instead of following it
PageRun_one_call(st, b0, b1, sd, n, button, drawn) ==
    LET inv == Invocation(st, b0, b1, sd, n, IF button THEN drawn ELSE 0)
    IN  [random_seed |-> inv.rseed, calls |-> <<inv>>, custom_data |-> inv]

\* a run that starts from the seed the run before it ended with
PageRun_seed_kept(st, b0, b1, sd, n, button, drawn) ==
    LET seed0 == st.key
        first == Invocation(st, b0, b1, sd, n, seed0)
        second == Invocation(first.np, b0, b1, sd, n, drawn)
    IN  [random_seed |-> IF button THEN drawn ELSE seed0,
         calls |-> IF button THEN <<first, second>> ELSE <<first>>,
         custom_data |-> IF button THEN second ELSE first]

(* One run of the script with the sliders at b0, b1, sd, n; button is the  *)
(* value st.button returns and drawn the result of random.randint.         *)
PageRun(st, b0, b1, sd, n, button, drawn) ==
    LET seed0 == 0
        first == Invocation(st, b0, b1, sd, n, seed0)
        second == Invocation(first.np, b0, b1, sd, n, drawn)
    IN  [random_seed |-> IF button THEN drawn ELSE seed0,
         calls |-> IF button THEN <<first, second>> ELSE <<first>>,
         custom_data |-> IF button THEN second ELSE first]

EngineIdle ==
    /\ out = NoOutcome /\ out_args = NoArgs /\ ref = NoRef
    /\ op = "start" /\ plot = NoPlot

Rerun(b0, b1, sd, n, button, drawn) ==
    LET run == PageRun(np_state, b0, b1, sd, n, button, drawn)
    IN  /\ b0_cust' = b0
        /\ b1_cust' = b1
        /\ var_cust' = sd
        /\ n_cust' = n
        /\ clicked' = button
        /\ random_seed' = run.random_seed
        /\ calls' = run.calls
        /\ custom_data' = run.custom_data
        /\ seed_before' = (random_seed # 0)
        /\ np_state' = run.custom_data.np
        /\ UNCHANGED engineVars

\* the first run, every slider at its default
Init ==
    LET run == PageRun([key |-> 0, pos |-> 0], b0_slider.value,
                       b1_slider.value, var_slider.value, n_slider.value,
                       FALSE, 0)
    IN  /\ b0_cust = b0_slider.value
        /\ b1_cust = b1_slider.value
        /\ var_cust = var_slider.value
        /\ n_cust = n_slider.value
        /\ clicked = FALSE
        /\ random_seed = run.random_seed
        /\ calls = run.calls
        /\ custom_data = run.custom_data
        /\ seed_before = FALSE
        /\ np_state = run.custom_data.np
        /\ EngineIdle

MoveB0(v) ==
    /\ v # b0_cust
    /\ Rerun(v, b1_cust, var_cust, n_cust, FALSE, 0)

MoveB1(v) ==
    /\ v # b1_cust
    /\ Rerun(b0_cust, v, var_cust, n_cust, FALSE, 0)

MoveVar(v) ==
    /\ v # var_cust
    /\ Rerun(b0_cust, b1_cust, v, n_cust, FALSE, 0)

MoveN(v) ==
    /\ v # n_cust
    /\ Rerun(b0_cust, b1_cust, var_cust, v, FALSE, 0)

Resample(drawn) ==
    Rerun(b0_cust, b1_cust, var_cust, n_cust, TRUE, drawn)

Next ==
    \/ \E v \in B0Values : MoveB0(v)
    \/ \E v \in B1Values : MoveB1(v)
    \/ \E v \in VarValues : MoveVar(v)
    \/ \E v \in NValues : MoveN(v)
    \/ \E drawn \in SeedValues(0, 10000) : Resample(drawn)

Spec == Init /\ [][Next]_vars

----------------------------------------------------------------------------
(* Properties *)

NonDecreasing(a) == \A i \in 1..(Len(a) - 1) : a[i] <= a[i + 1]

LastCall == calls[Len(calls)]

\* C1: a call with the arguments of the first call returns what the first
\* call returned (x, y, y_hat, ci, s, model), whatever calls came between.
Thm_C1 ==
    (ref # NoRef /\ out_args = ref.args) => Returned(out) = ref.out

\* a repeat of the first call after a call with another seed
Wit_C1 ==
    /\ ref.between
    /\ out_args = ref.args
    /\ out.status = "ok"

\* the call raised instead of returning
Raised(o) == o.status \notin {"ok", "none"}

\* C2: a call with N < K + 1, its other arguments valid, fails and returns
\* no result bundle, so no NaN or infinite residual standard error either.
Claim_C2 ==
    (op # "start" /\ out_args[4] < K + 1 /\ out_args[3] > 0)
        => Raised(out)

\* C3: a call with sd <= 0, its sample size valid, fails and returns no
\* result bundle.
Claim_C3 ==
    (op # "start" /\ out_args[3] <= 0 /\ out_args[4] >= K + 1)
        => Raised(out)

\* C4 as stated: after a click on "Resample data" the seed s satisfies
\* 0 <= s < 10000 and the last call has the slider values and that seed.
Claim_C4 ==
    clicked =>
        /\ 0 <= random_seed /\ random_seed < 10000
        /\ LastCall.b0 = b0_cust /\ LastCall.b1 = b1_cust
        /\ LastCall.sd = var_cust /\ LastCall.N = n_cust
        /\ LastCall.rseed = random_seed

\* C4 amended: after a click on "Resample data" the seed s satisfies
\* 0 <= s <= 10000 and the last call has the slider values and that seed.
Thm_C4 ==
    clicked =>
        /\ 0 <= random_seed /\ random_seed <= 10000
        /\ LastCall.b0 = b0_cust /\ LastCall.b1 = b1_cust
        /\ LastCall.sd = var_cust /\ LastCall.N = n_cust
        /\ LastCall.rseed = random_seed

\* a resample that drew the upper end
Wit_C4 == clicked /\ random_seed = 10000 /\ LastCall.rseed = 10000

\* C5 as stated: every run makes exactly one gen_lin_data call.
Claim_C5 == Len(calls) = 1

\* C5 amended: a run caused by a slider change makes exactly one call; a
\* run caused by the button makes exactly two, the first with seed 0 and
\* the second with the drawn seed, both with the slider values.
Thm_C5 ==
    /\ ~clicked => Len(calls) = 1
    /\ clicked =>
          /\ Len(calls) = 2
          /\ calls[1].rseed = 0
          /\ calls[2].rseed = random_seed
          /\ \A i \in 1..2 :
                /\ calls[i].b0 = b0_cust /\ calls[i].b1 = b1_cust
                /\ calls[i].sd = var_cust /\ calls[i].N = n_cust

\* a run caused by the button, after the sliders were moved
Wit_C5 == clicked /\ Len(calls) = 2 /\ n_cust # n_slider.value

\* C6 as stated: the x values handed to the fitted-line plot call are in
\* non-decreasing order.
Claim_C6 == plot.drawn => NonDecreasing(plot.line_x)

\* C6 amended: the fitted-line plot call receives the observations in
\* sample order, row i being (x_i, y_hat_i), the order of the scatter.
Thm_C6 ==
    plot.drawn =>
        /\ plot.line_x = Column(out.x, 2)
        /\ plot.line_y = out.y_hat
        /\ plot.line_x = plot.scatter_x

\* a fitted line drawn over a sample whose x values are out of order
Wit_C6 ==
    /\ plot.drawn
    /\ ~NonDecreasing(plot.line_x)
    /\ \E i, j \in 1..Len(plot.line_y) : plot.line_y[i] # plot.line_y[j]

\* C7: the x handed to fill_between is non-decreasing, and one permutation
\* of the sample yields x, ci_lower and ci_upper alike.
Thm_C7 ==
    plot.drawn =>
        /\ NonDecreasing(plot.fill_x)
        /\ \E p \in Perms(Len(out.x)) :
              \A i \in 1..Len(out.x) :
                 /\ plot.fill_x[i] = out.x[p[i]][2]
                 /\ plot.fill_lower[i] = out.ci[p[i]][1]
                 /\ plot.fill_upper[i] = out.ci[p[i]][2]

\* a band drawn over a sample that had to be reordered and whose
\* observations have different finite bounds
Wit_C7 ==
    /\ plot.drawn
    /\ ~NonDecreasing(Column(out.x, 2))
    /\ \A i \in 1..Len(out.ci) : out.ci[i][1].k = "num"
    /\ \E i, j \in 1..Len(out.ci) : out.ci[i][1] # out.ci[j][1]
    /\ \E i \in 1..Len(out.ci) : out.ci[i][1] # out.ci[i][2]

\* C8: when a call on a sample of valid size yields a y of zero total
\* variation, the R-squared of the result is exactly 0.
Claim_C8 ==
    (/\ out.status = "ok"
     /\ out_args[4] >= K + 1
     /\ out.model.centered_tss = RInt(0))
        => out.model.rsquared = FNum(RInt(0))

\* C9: a gen_lin_data call leaves the process-wide generator as it was.
Claim_C9 == [][op' = "gen_lin_data" => np_state' = np_state]_vars

\* C10: every call the page makes has 0.1 <= sd <= 20.0, 10 <= N <= 1000,
\* N a multiple of 10, and N - 2 >= 8 degrees of freedom (8 at N = 10).
Thm_C10 ==
    \A i \in 1..Len(calls) :
        /\ 1 <= calls[i].sd /\ calls[i].sd <= 200
        /\ 10 <= calls[i].N /\ calls[i].N <= 1000
        /\ calls[i].N % 10 = 0
        /\ calls[i].deg_freedom = calls[i].N - 2
        /\ calls[i].deg_freedom >= 8
        /\ (calls[i].N = 10 => calls[i].deg_freedom = 8)

\* a resample at the smallest sample size and the smallest error SD
Wit_C10 ==
    /\ clicked
    /\ \A i \in 1..Len(calls) :
          calls[i].N = 10 /\ calls[i].deg_freedom = 8 /\ calls[i].sd = 1

\* C11: a run not caused by the button shows the result of the call with
\* seed 0, whatever seed the run before it ended with; a run caused by the
\* button shows the result of its second call, the one with the drawn
\* seed, its first call having been made with seed 0.
Thm_C11 ==
    /\ calls[1].rseed = 0
    /\ ~clicked =>
          /\ random_seed = 0
          /\ custom_data = calls[1]
          /\ custom_data.rseed = 0
    /\ clicked =>
          /\ custom_data = calls[2]
          /\ custom_data.rseed = random_seed
    /\ custom_data.b0 = b0_cust /\ custom_data.b1 = b1_cust
    /\ custom_data.sd = var_cust /\ custom_data.N = n_cust

\* a slider change right after a resample that drew a seed other than 0
Wit_C11 ==
    /\ ~clicked
    /\ seed_before
    /\ custom_data.rseed = 0
    /\ np_state.key = 0

====
